---- MODULE Spec2Model ----
(***************************************************************************)
(* A state-machine model of gptgif.c (the .gptgif.gif encoder): main's     *)
(* argument check, the hex serializer, the frame chunker / driver loop,   *)
(* draw_frame and draw_char, and the sequence of giflib calls they make.  *)
(*                                                                         *)
(* C indices are kept 0-based; TLA+ sequences are 1-based, so element k of *)
(* a C array a is a[k + 1] here.  The raster of draw_frame is write-only   *)
(* in the program (no branch reads it), so the model keeps, per draw_char  *)
(* call, the indices that call computed and the pixels it stored.          *)
(*                                                                         *)
(* Three specifications share the actions:                                 *)
(*   Spec        the whole program, from the command line on; draw_frame's *)
(*               glyph loop is one step (DfDrawGlyphs);                    *)
(*   SpecDriver  the program from the end of serialization on, for hex     *)
(*               buffers of up to DriverFrames frames and more;            *)
(*   SpecRaster  draw_frame alone, its glyph loop unfolded one draw_char   *)
(*               call per step (DfDrawChar), for chunk lengths and frame   *)
(*               indices main's small inputs do not reach.                 *)
(* malloc (line 76), calloc (line 57) and GifMakeMapObject (line 102) are  *)
(* taken to succeed; realloc (line 86) and EGifOpenFileName (line 101)     *)
(* may fail.  hex_len, offset and frame stay far below INT_MAX within the   *)
(* bounds, so int arithmetic is exact.                                     *)
(***************************************************************************)
EXTENDS Integers, Sequences, FiniteSets

\* ------------------------------------------------------------------------
\* Program constants (gptgif.c lines 9-17)
WIDTH == 640
HEIGHT == 480
GLYPH_WIDTH == 8
GLYPH_HEIGHT == 8
COLS == WIDTH \div GLYPH_WIDTH
ROWS == HEIGHT \div GLYPH_HEIGHT
FRAME_CHARS == COLS * ROWS
INITIAL_HEX_CAPACITY == 1024
COLOR_COUNT == 256

\* gce[1] of draw_frame (line 58): the inter-frame delay, in centiseconds.
GCE_DELAY == 30
\* The modulus and base of the brightness ramp (line 49).
BRIGHT_BASE == 32
BRIGHT_MOD == 223
\* GifByteType is an unsigned char: a store keeps the value modulo 256.
BYTE_RANGE == 256

\* line 19
hex_chars == <<"0","1","2","3","4","5","6","7","8","9","a","b","c","d","e","f">>

\* lines 22-39: font[16][8], one 8-bit row mask per glyph row.
font ==
  << <<0, 60, 102, 110, 118, 102, 60, 0>>,   \* 0
     <<0, 24, 56, 24, 24, 24, 60, 0>>,       \* 1
     <<0, 60, 102, 12, 24, 48, 126, 0>>,     \* 2
     <<0, 60, 102, 28, 6, 102, 60, 0>>,      \* 3
     <<0, 12, 28, 44, 76, 126, 12, 0>>,      \* 4
     <<0, 126, 96, 124, 6, 102, 60, 0>>,     \* 5
     <<0, 60, 96, 124, 102, 102, 60, 0>>,    \* 6
     <<0, 126, 6, 12, 24, 48, 48, 0>>,       \* 7
     <<0, 60, 102, 60, 102, 102, 60, 0>>,    \* 8
     <<0, 60, 102, 102, 62, 6, 60, 0>>,      \* 9
     <<0, 60, 6, 62, 102, 102, 62, 0>>,      \* a
     <<0, 96, 96, 124, 102, 102, 124, 0>>,   \* b
     <<0, 60, 96, 96, 96, 96, 60, 0>>,       \* c
     <<0, 6, 6, 62, 102, 102, 62, 0>>,       \* d
     <<0, 60, 102, 126, 96, 96, 60, 0>>,     \* e
     <<0, 28, 48, 48, 124, 48, 48, 0>> >>    \* f

\* ------------------------------------------------------------------------
\* Bounds of the model
\* The most input paths an enumerated command line carries.
MaxInputs == 3
\* The byte count of the large input file "big".
BigLen == 2400
\* The chunk length of the short draw_frame calls of SpecRaster.
RasterLen == 81
\* SpecDriver's hex buffers hold up to DriverFrames full frames and a rest.
DriverFrames == 2

\* ------------------------------------------------------------------------
\* The environment: the file system the program runs against.
NUL == "NUL"

\* fopen(path, "rb") succeeds (line 80).
Readable(p) == p # "nofile"

\* The byte count of a readable file.
FileLen(p) ==
  CASE p = "A" -> 1
    [] p = "edge" -> 3
    [] p = "big" -> BigLen
    [] OTHER -> 0

\* The byte at offset k (0-based) of a readable file: what fgetc returns.
FileByte(p, k) ==
  CASE p = "A" -> 65
    [] p = "edge" -> <<0, 10, 255>>[k + 1]
    [] OTHER -> (k * 37 + 11) % 256

\* EGifOpenFileName(path, false, &error) succeeds (line 101).
Writable(p) == p = "out.gif"

VARIABLES
  argv,          \* the command line; argc is its length
  pc,            \* the program's position
  status,        \* the exit status; -1 while the process runs
  err,           \* what was printed to stderr
  f,             \* main: the index of the input argument
  in_pos,        \* main: bytes read so far from the open input
  hex,           \* main: the bytes written to the hex buffer so far
  hex_len,       \* main
  hex_capacity,  \* main
  gif,           \* main: the handle EGifOpenFileName returned
  calls,         \* the giflib encoder calls made so far, in order
  offset,        \* main: the driver loop's offset
  frame,         \* main: the driver loop's frame index
  dfcalls,       \* the arguments of the draw_frame calls made so far
  df_data,       \* draw_frame: data, as an offset into hex
  df_len,        \* draw_frame: len
  df_frame,      \* draw_frame: frame
  i,             \* draw_frame: the glyph loop's index
  dc             \* the last draw_char call: its arguments and its effect

vars == <<argv, pc, status, err, f, in_pos, hex, hex_len, hex_capacity, gif,
          calls, offset, frame, dfcalls, df_data, df_len, df_frame, i, dc>>

argc == Len(argv)
\* argv[k] of the C program.
Arg(k) == argv[k + 1]

Min(a, b) == IF a < b THEN a ELSE b

\* ------------------------------------------------------------------------
\* The command lines the model runs.
SeqsUpTo(S, n) == UNION {[1..k -> S] : k \in 0..n}

SmallPaths == {"nofile", "empty", "A", "edge"}
Cmds == {"cf", "xf"}
OutPaths == {"out.gif", "/nodir/out.gif"}

\* One full frame exactly, and two full frames with a remainder of two symbols.
BigInputs == {<<"big">>, <<"big", "big", "A">>}

CommandLines ==
  {<<"gptgif">>}
    \cup {<<"gptgif", c>> : c \in Cmds}
    \cup {<<"gptgif", c, o>> \o ins :
            c \in Cmds, o \in OutPaths, ins \in SeqsUpTo(SmallPaths, MaxInputs)}
    \cup {<<"gptgif", "cf", "out.gif">> \o ins : ins \in BigInputs}

NoCall == [x |-> 0, y |-> 0, c |-> NUL, frame |-> 0, matched |-> FALSE,
           idxs |-> {}, writes |-> {}]

Init ==
  /\ argv \in CommandLines
  /\ pc = "start"
  /\ status = -1
  /\ err = ""
  /\ f = 0
  /\ in_pos = 0
  /\ hex = <<>>
  /\ hex_len = 0
  /\ hex_capacity = 0
  /\ gif = "unset"
  /\ calls = <<>>
  /\ offset = 0
  /\ frame = 0
  /\ dfcalls = <<>>
  /\ df_data = 0
  /\ df_len = 0
  /\ df_frame = 0
  /\ i = 0
  /\ dc = NoCall

\* ------------------------------------------------------------------------
\* main, lines 69-77

\* UsageError with argc < 3 for argc < 4: a command line without inputs
\* would pass.
MutUsageError(n, args) == IF n < 3 THEN TRUE ELSE args[2] # "cf"

\* line 70: the condition of the usage path; || reads argv[1] only when
\* argc >= 4.
UsageError(n, args) == IF n < 4 THEN TRUE ELSE args[2] # "cf"

\* lines 70-73
Usage ==
  /\ pc = "start"
  /\ UsageError(argc, argv)
  /\ err' = "usage"
  /\ status' = 1
  /\ pc' = "exit"
  /\ UNCHANGED <<argv, f, in_pos, hex, hex_len, hex_capacity, gif, calls,
                 offset, frame, dfcalls, df_data, df_len, df_frame, i, dc>>

\* lines 75-79: the buffer is allocated and the input loop starts at f = 3.
Setup ==
  /\ pc = "start"
  /\ ~UsageError(argc, argv)
  /\ hex_capacity' = INITIAL_HEX_CAPACITY
  /\ hex' = <<>>
  /\ hex_len' = 0
  /\ f' = 3
  /\ pc' = "for_f"
  /\ UNCHANGED <<argv, status, err, in_pos, gif, calls, offset, frame,
                 dfcalls, df_data, df_len, df_frame, i, dc>>

\* lines 70-73, 126: the status main returns for a command line when no
\* allocation fails and the process is not killed.
ExitStatusOf(args) == IF UsageError(Len(args), args) THEN 1 ELSE 0

\* ------------------------------------------------------------------------
\* The hex serializer, lines 79-98

\* The digits printf's %x conversion produces.
XDigit(d) == <<"0","1","2","3","4","5","6","7","8","9","a","b","c","d","e","f">>[d + 1]

RECURSIVE ToHex(_)
ToHex(n) == IF n < 16 THEN <<XDigit(n)>> ELSE ToHex(n \div 16) \o <<XDigit(n % 16)>>

\* Fmt02x as "%x": no zero padding.
MutFmt02x(c) == ToHex(c)

\* line 94: the conversion "%02x": lowercase hex, zero-padded to two digits.
Fmt02x(c) == IF c < 16 THEN <<"0", XDigit(c)>> ELSE ToHex(c)

\* line 94: snprintf(dst, size, ...) stores at most size - 1 characters and a
\* terminating NUL.
Snprintf(size, s) == SubSeq(s, 1, Min(Len(s), size - 1)) \o <<NUL>>

\* The bytes of buffer buf after s is stored at offset at.
WriteAt(buf, at, s) ==
  SubSeq(buf, 1, at) \o s \o SubSeq(buf, at + Len(s) + 1, Len(buf))

\* NeedsGrow with > for >=: growth one append too late.
MutNeedsGrow(len, cap) == len + 2 > cap

\* line 84: the growth test.
NeedsGrow(len, cap) == len + 2 >= cap

\* FopenFail with the failure treated as fatal: diagnostic and exit 1.
MutFopenFail ==
  /\ pc = "for_f"
  /\ f < argc
  /\ ~Readable(Arg(f))
  /\ err' = "cannot open input"
  /\ status' = 1
  /\ pc' = "exit"
  /\ UNCHANGED <<argv, f, in_pos, hex, hex_len, hex_capacity, gif, calls,
                 offset, frame, dfcalls, df_data, df_len, df_frame, i, dc>>

\* lines 79-81: fopen fails and the loop continues with the next path.
FopenFail ==
  /\ pc = "for_f"
  /\ f < argc
  /\ ~Readable(Arg(f))
  /\ f' = f + 1
  /\ UNCHANGED <<argv, pc, status, err, in_pos, hex, hex_len, hex_capacity,
                 gif, calls, offset, frame, dfcalls, df_data, df_len,
                 df_frame, i, dc>>

\* line 80: fopen succeeds.
FopenOk ==
  /\ pc = "for_f"
  /\ f < argc
  /\ Readable(Arg(f))
  /\ in_pos' = 0
  /\ pc' = "read"
  /\ UNCHANGED <<argv, status, err, f, hex, hex_len, hex_capacity, gif,
                 calls, offset, frame, dfcalls, df_data, df_len, df_frame,
                 i, dc>>

\* lines 83-96: fgetc returns a byte; the buffer grows if needed (realloc
\* succeeds) and the byte's two hex digits and a NUL are stored at hex_len.
AppendByte ==
  /\ pc = "read"
  /\ in_pos < FileLen(Arg(f))
  /\ LET c == FileByte(Arg(f), in_pos)
     IN  /\ hex_capacity' = IF NeedsGrow(hex_len, hex_capacity)
                              THEN hex_capacity * 2
                              ELSE hex_capacity
         /\ hex' = WriteAt(hex, hex_len, Snprintf(3, Fmt02x(c)))
         /\ hex_len' = hex_len + 2
  /\ in_pos' = in_pos + 1
  /\ UNCHANGED <<argv, pc, status, err, f, gif, calls, offset, frame,
                 dfcalls, df_data, df_len, df_frame, i, dc>>

\* lines 84-91: the buffer must grow and realloc fails: diagnostic, exit 1.
ReallocFail ==
  /\ pc = "read"
  /\ in_pos < FileLen(Arg(f))
  /\ NeedsGrow(hex_len, hex_capacity)
  /\ hex_capacity' = hex_capacity * 2
  /\ err' = "Memory allocation failed"
  /\ status' = 1
  /\ pc' = "exit"
  /\ UNCHANGED <<argv, f, in_pos, hex, hex_len, gif, calls, offset, frame,
                 dfcalls, df_data, df_len, df_frame, i, dc>>

\* lines 83, 97: fgetc returns EOF; the file is closed and f advances.
ReadEOF ==
  /\ pc = "read"
  /\ in_pos >= FileLen(Arg(f))
  /\ f' = f + 1
  /\ pc' = "for_f"
  /\ UNCHANGED <<argv, status, err, in_pos, hex, hex_len, hex_capacity, gif,
                 calls, offset, frame, dfcalls, df_data, df_len, df_frame,
                 i, dc>>

\* line 79: the input loop ends.
InputsDone ==
  /\ pc = "for_f"
  /\ f >= argc
  /\ pc' = "gif_open"
  /\ UNCHANGED <<argv, status, err, f, in_pos, hex, hex_len, hex_capacity,
                 gif, calls, offset, frame, dfcalls, df_data, df_len,
                 df_frame, i, dc>>

\* ------------------------------------------------------------------------
\* The encoder calls.  A call on the NULL handle dereferences it inside
\* giflib: undefined behaviour, which either kills the process in the call
\* or lets it return.
Call(op, a, b) == [op |-> op, a |-> a, b |-> b]

AfterCall(next) == IF gif = "NULL" THEN {"crashed", next} ELSE {next}

\* lines 100-114: the container is opened and the palette is built.
GifOpen ==
  /\ pc = "gif_open"
  /\ gif' = IF Writable(Arg(2)) THEN "gif" ELSE "NULL"
  /\ calls' = Append(calls, Call("EGifOpenFileName", 0, 0))
  /\ pc' = "screen"
  /\ UNCHANGED <<argv, status, err, f, in_pos, hex, hex_len, hex_capacity,
                 offset, frame, dfcalls, df_data, df_len, df_frame, i, dc>>

\* lines 116-118: the screen descriptor, then the driver loop's initialisation.
PutScreenDesc ==
  /\ pc = "screen"
  /\ calls' = Append(calls, Call("EGifPutScreenDesc", WIDTH, HEIGHT))
  /\ pc' \in AfterCall("loop")
  /\ offset' = 0
  /\ frame' = 0
  /\ UNCHANGED <<argv, status, err, f, in_pos, hex, hex_len, hex_capacity,
                 gif, dfcalls, df_data, df_len, df_frame, i, dc>>

\* ChunkLen without the remainder case: every chunk a full frame.
MutChunkLen(len, off) == FRAME_CHARS

\* line 119
ChunkLen(len, off) == IF len - off > FRAME_CHARS THEN FRAME_CHARS ELSE len - off

\* LoopCond with <= for <: the loop would run once more on an exhausted
\* buffer.
MutLoopCond(off, len) == off <= len

\* line 118: the driver loop's condition.
LoopCond(off, len) == off < len

\* lines 118-120: one more chunk; draw_frame is called.
CallFrame ==
  /\ pc = "loop"
  /\ LoopCond(offset, hex_len)
  /\ LET chunk == ChunkLen(hex_len, offset)
     IN  /\ dfcalls' = Append(dfcalls,
                              [frame |-> frame, offset |-> offset, len |-> chunk])
         /\ df_data' = offset
         /\ df_len' = chunk
         /\ df_frame' = frame
  /\ pc' = "df_ext"
  /\ UNCHANGED <<argv, status, err, f, in_pos, hex, hex_len, hex_capacity,
                 gif, calls, offset, frame, i, dc>>

\* line 118: draw_frame returned; the loop's increment.
LoopInc ==
  /\ pc = "df_ret"
  /\ offset' = offset + FRAME_CHARS
  /\ frame' = frame + 1
  /\ pc' = "loop"
  /\ UNCHANGED <<argv, status, err, f, in_pos, hex, hex_len, hex_capacity,
                 gif, calls, dfcalls, df_data, df_len, df_frame, i, dc>>

\* line 118: the driver loop ends.
LoopExit ==
  /\ pc = "loop"
  /\ ~LoopCond(offset, hex_len)
  /\ pc' = "close"
  /\ UNCHANGED <<argv, status, err, f, in_pos, hex, hex_len, hex_capacity,
                 gif, calls, offset, frame, dfcalls, df_data, df_len,
                 df_frame, i, dc>>

\* lines 123-126: the container is closed and main returns 0.
CloseFile ==
  /\ pc = "close"
  /\ calls' = Append(calls, Call("EGifCloseFile", 0, 0))
  /\ pc' \in AfterCall("exit")
  /\ status' = IF pc' = "exit" THEN 0 ELSE status
  /\ UNCHANGED <<argv, err, f, in_pos, hex, hex_len, hex_capacity, gif,
                 offset, frame, dfcalls, df_data, df_len, df_frame, i, dc>>

\* ------------------------------------------------------------------------
\* draw_char, lines 41-54

\* line 42: strchr(hex_chars, c) - hex_chars, or -1 for a NULL result.
Strchr(c) ==
  IF \E k \in 1..Len(hex_chars) : hex_chars[k] = c
    THEN (CHOOSE k \in 1..Len(hex_chars) :
            hex_chars[k] = c /\ \A j \in 1..(k - 1) : hex_chars[j] # c) - 1
    ELSE -1

\* line 48: glyph[dy] & (1 << (7 - dx))
BitSet(g, dy, dx) == (font[g + 1][dy + 1] \div 2 ^ (7 - dx)) % 2 = 1

\* line 47
RasterIndex(x, y, dx, dy) == (y + dy) * WIDTH + (x + dx)

\* Brightness with modulus 224: the ramp would reach 255.
MutBrightness(fr, dy, dx) == BRIGHT_BASE + ((fr + dy + dx) % (BRIGHT_MOD + 1))

\* line 49
Brightness(fr, dy, dx) == BRIGHT_BASE + ((fr + dy + dx) % BRIGHT_MOD)

\* line 50: the store into a GifByteType.
StoreByte(v) == v % BYTE_RANGE

\* lines 41-54: the indices one call computes and the pixels it stores.
DrawChar(x, y, c, fr) ==
  LET g == Strchr(c)
      cell == (0..(GLYPH_HEIGHT - 1)) \X (0..(GLYPH_WIDTH - 1))
  IN  [x |-> x, y |-> y, c |-> c, frame |-> fr, matched |-> g # -1,
       idxs |-> IF g = -1 THEN {}
                ELSE {RasterIndex(x, y, p[2], p[1]) : p \in cell},
       writes |-> IF g = -1 THEN {}
                  ELSE {[dx |-> p[2], dy |-> p[1],
                         idx |-> RasterIndex(x, y, p[2], p[1]),
                         val |-> StoreByte(Brightness(fr, p[1], p[2]))] :
                          p \in {q \in cell : BitSet(g, q[1], q[2])}}]

\* ------------------------------------------------------------------------
\* draw_frame, lines 56-67

\* lines 57-59: the raster is allocated; the graphics-control extension.
DfPutExtension ==
  /\ pc = "df_ext"
  /\ calls' = Append(calls, Call("EGifPutExtension", GCE_DELAY, 4))
  /\ pc' \in AfterCall("df_desc")
  /\ UNCHANGED <<argv, status, err, f, in_pos, hex, hex_len, hex_capacity,
                 gif, offset, frame, dfcalls, df_data, df_len, df_frame, i,
                 dc>>

\* lines 60-61: the image descriptor; the glyph loop starts at i = 0.
DfPutImageDesc ==
  /\ pc = "df_desc"
  /\ calls' = Append(calls, Call("EGifPutImageDesc", WIDTH, HEIGHT))
  /\ pc' \in AfterCall("df_glyph")
  /\ i' = 0
  /\ UNCHANGED <<argv, status, err, f, in_pos, hex, hex_len, hex_capacity,
                 gif, offset, frame, dfcalls, df_data, df_len, df_frame, dc>>

\* GlyphCond without the cap at FRAME_CHARS.
MutGlyphCond(k, len) == k < len

\* line 61: the glyph loop's condition.
GlyphCond(k, len) == k < len /\ k < FRAME_CHARS

\* line 62
GlyphRow(k) == k \div COLS
GlyphCol(k) == k % COLS

\* lines 61-64: one glyph is drawn.
DfDrawChar ==
  /\ pc = "df_glyph"
  /\ GlyphCond(i, df_len)
  /\ dc' = DrawChar(GlyphCol(i) * GLYPH_WIDTH, GlyphRow(i) * GLYPH_HEIGHT,
                    hex[df_data + i + 1], df_frame)
  /\ i' = i + 1
  /\ UNCHANGED <<argv, pc, status, err, f, in_pos, hex, hex_len, hex_capacity,
                 gif, calls, offset, frame, dfcalls, df_data, df_len,
                 df_frame>>

\* line 61: the glyph loop ends.
DfGlyphsDone ==
  /\ pc = "df_glyph"
  /\ ~GlyphCond(i, df_len)
  /\ pc' = "df_lines"
  /\ UNCHANGED <<argv, status, err, f, in_pos, hex, hex_len, hex_capacity,
                 gif, calls, offset, frame, dfcalls, df_data, df_len,
                 df_frame, i, dc>>

\* line 61: the number of iterations the glyph loop makes.
GlyphCount(len) == IF len <= 0 THEN 0 ELSE Min(len, FRAME_CHARS)

\* lines 61-64: the glyph loop from i = 0 to its end, as one step: i is left
\* at the iteration count and dc at the last draw_char call.
DfDrawGlyphs ==
  /\ pc = "df_glyph"
  /\ i = 0
  /\ LET n == GlyphCount(df_len)
     IN  /\ i' = n
         /\ dc' = IF n = 0 THEN dc
                  ELSE DrawChar(GlyphCol(n - 1) * GLYPH_WIDTH,
                                GlyphRow(n - 1) * GLYPH_HEIGHT,
                                hex[df_data + n], df_frame)
  /\ pc' = "df_lines"
  /\ UNCHANGED <<argv, status, err, f, in_pos, hex, hex_len, hex_capacity,
                 gif, calls, offset, frame, dfcalls, df_data, df_len,
                 df_frame>>

\* LineCount one short: the loop bound y < HEIGHT - 1.
MutLineCount == HEIGHT - 1

\* line 65: the number of raster lines draw_frame emits.
LineCount == HEIGHT

\* line 65: the EGifPutLine calls, &raster[y * WIDTH] given as its offset.
PutLines(n) == [k \in 1..n |-> Call("EGifPutLine", (k - 1) * WIDTH, WIDTH)]

\* lines 65-67: the lines are written top to bottom, the raster is freed and
\* draw_frame returns.
DfPutLines ==
  /\ pc = "df_lines"
  /\ pc' \in AfterCall("df_ret")
  /\ calls' = calls \o PutLines(IF pc' = "crashed" THEN 1 ELSE LineCount)
  /\ UNCHANGED <<argv, status, err, f, in_pos, hex, hex_len, hex_capacity,
                 gif, offset, frame, dfcalls, df_data, df_len, df_frame, i,
                 dc>>

\* ------------------------------------------------------------------------
Next ==
  \/ Usage
  \/ Setup
  \/ FopenFail
  \/ FopenOk
  \/ AppendByte
  \/ ReallocFail
  \/ ReadEOF
  \/ InputsDone
  \/ GifOpen
  \/ PutScreenDesc
  \/ CallFrame
  \/ DfPutExtension
  \/ DfPutImageDesc
  \/ DfDrawGlyphs
  \/ DfPutLines
  \/ LoopInc
  \/ LoopExit
  \/ CloseFile

Spec == Init /\ [][Next]_vars

\* ------------------------------------------------------------------------
\* The program from the end of serialization on: one input, "in.bin", of
\* len / 2 bytes has been read into a hex buffer of len symbols (its length
\* is no longer consulted: FileLen gives none for it).
DriverLens ==
  {k * FRAME_CHARS + d : k \in 0..DriverFrames, d \in {0, 2, FRAME_CHARS - 2}}

\* The hex buffer after len / 2 appends of the bytes FileByte("in.bin", _).
SerializedHex(len) ==
  IF len = 0 THEN <<>>
  ELSE [k \in 1..(len + 1) |->
          IF k = len + 1 THEN NUL
          ELSE Fmt02x(FileByte("in.bin", (k - 1) \div 2))[((k - 1) % 2) + 1]]

\* hex_capacity after the appends that brought hex_len to len.
RECURSIVE GrownCapacity(_, _)
GrownCapacity(cap, len) ==
  IF len < cap THEN cap ELSE GrownCapacity(cap * 2, len)

InitDriver ==
  /\ argv \in {<<"gptgif", "cf", o, "in.bin">> : o \in OutPaths}
  /\ pc = "gif_open"
  /\ status = -1
  /\ err = ""
  /\ f = 4
  /\ hex_len \in DriverLens
  /\ in_pos = hex_len \div 2
  /\ hex = SerializedHex(hex_len)
  /\ hex_capacity = GrownCapacity(INITIAL_HEX_CAPACITY, hex_len)
  /\ gif = "unset"
  /\ calls = <<>>
  /\ offset = 0
  /\ frame = 0
  /\ dfcalls = <<>>
  /\ df_data = 0
  /\ df_len = 0
  /\ df_frame = 0
  /\ i = 0
  /\ dc = NoCall

NextDriver ==
  \/ GifOpen
  \/ PutScreenDesc
  \/ CallFrame
  \/ DfPutExtension
  \/ DfPutImageDesc
  \/ DfDrawGlyphs
  \/ DfPutLines
  \/ LoopInc
  \/ LoopExit
  \/ CloseFile

SpecDriver == InitDriver /\ [][NextDriver]_vars

\* The program is one sequential process: it takes its next step whenever it
\* has one.
LiveDriver == InitDriver /\ [][NextDriver]_vars /\ WF_vars(NextDriver)

\* ------------------------------------------------------------------------
\* draw_frame on its own: it is called with a len, a frame index and a data
\* buffer drawn from bounded sets, and runs to its return.
RasterLens == {0, 1, RasterLen, FRAME_CHARS + 1}
RasterFrames == {0, 1, 215, 1000}

\* The data buffer: the sixteen hex digits and one symbol that is none of them.
RasterData(n) == [k \in 1..n |-> (hex_chars \o <<"g">>)[((k - 1) % 17) + 1]]

\* draw_frame at its entry, or (in frame 0) in its glyph loop with the
\* frame's last two positions left to draw.
InitRaster ==
  /\ argv = <<"gptgif">>
  /\ status = -1
  /\ err = ""
  /\ f = 0
  /\ in_pos = 0
  /\ df_len \in RasterLens
  /\ df_frame \in RasterFrames
  /\ df_data = 0
  /\ hex = RasterData(df_len)
  /\ hex_len = df_len
  /\ hex_capacity = df_len + 1
  /\ gif = "gif"
  /\ offset = 0
  /\ frame = df_frame
  /\ dfcalls = <<[frame |-> df_frame, offset |-> 0, len |-> df_len]>>
  /\ \/ /\ pc = "df_ext"
        /\ calls = <<>>
        /\ i = 0
        /\ dc = NoCall
     \/ /\ pc = "df_glyph"
        /\ df_frame = 0
        /\ calls = <<Call("EGifPutExtension", GCE_DELAY, 4),
                     Call("EGifPutImageDesc", WIDTH, HEIGHT)>>
        /\ i = FRAME_CHARS - 2
        /\ i < df_len
        /\ dc = DrawChar(GlyphCol(i - 1) * GLYPH_WIDTH,
                         GlyphRow(i - 1) * GLYPH_HEIGHT, hex[df_data + i],
                         df_frame)

NextRaster ==
  \/ DfPutExtension
  \/ DfPutImageDesc
  \/ DfDrawChar
  \/ DfGlyphsDone
  \/ DfPutLines

SpecRaster == InitRaster /\ [][NextRaster]_vars

\* ------------------------------------------------------------------------
\* The initial states of SpecDriver and SpecRaster are states of the program.

\* Under Spec: the run on the single input "big" ends serialization in the
\* state InitDriver gives for a buffer of that length.
DriverInitReached ==
  (pc = "gif_open" /\ argv = <<"gptgif", "cf", "out.gif", "big">>) =>
    /\ hex_len = 2 * BigLen
    /\ hex = SerializedHex(hex_len)
    /\ hex_capacity = GrownCapacity(INITIAL_HEX_CAPACITY, hex_len)
    /\ f = 4
    /\ in_pos = hex_len \div 2
    /\ <<status, err, gif, calls, offset, frame, dfcalls, df_data, df_len,
         df_frame, i, dc>>
       = <<-1, "", "unset", <<>>, 0, 0, <<>>, 0, 0, 0, 0, NoCall>>

\* Under SpecRaster: a call that reaches position FRAME_CHARS - 2 from its
\* entry is in the state InitRaster gives for the glyph loop.
RasterInitReached ==
  (pc = "df_glyph" /\ i = FRAME_CHARS - 2) =>
    /\ calls = <<Call("EGifPutExtension", GCE_DELAY, 4),
                 Call("EGifPutImageDesc", WIDTH, HEIGHT)>>
    /\ dc = DrawChar(GlyphCol(i - 1) * GLYPH_WIDTH,
                     GlyphRow(i - 1) * GLYPH_HEIGHT, hex[df_data + i],
                     df_frame)

\* ------------------------------------------------------------------------
\* Properties

CeilDiv(a, b) == (a + b - 1) \div b

\* C1: the driver loop, once entered, ends (or the process dies in an
\* encoder call on a NULL handle); when it has ended, draw_frame has been
\* called exactly ceil(hex_len / FRAME_CHARS) times, never more on the way,
\* and for hex_len = 0 not at all, the container having received no frame.
C1_FrameCount ==
  /\ [](/\ Len(dfcalls) <= CeilDiv(hex_len, FRAME_CHARS)
        /\ (pc = "close" \/ (pc = "exit" /\ status = 0)) =>
              /\ Len(dfcalls) = CeilDiv(hex_len, FRAME_CHARS)
              /\ hex_len = 0 =>
                   /\ dfcalls = <<>>
                   /\ \A k \in 1..Len(calls) :
                        calls[k].op \in {"EGifOpenFileName", "EGifPutScreenDesc",
                                         "EGifCloseFile"})
  /\ ((pc = "loop") ~> (pc = "close" \/ pc = "crashed"))

\* C1's case: three frames were drawn for a buffer of more than two frames'
\* worth of symbols, and the loop has ended.
C1_Witness ==
  /\ pc = "close"
  /\ hex_len > 2 * FRAME_CHARS
  /\ Len(dfcalls) = 3

\* C2: the k-th draw_frame call (from 0) gets frame index k, the slice at
\* offset k * FRAME_CHARS and length min(FRAME_CHARS, L - k * FRAME_CHARS):
\* full chunks before the last, no empty chunk, the last holding the
\* remainder, the lengths summing to L; and a call's glyph loop runs over its
\* slice, from its first symbol to its last.
C2_Chunks ==
  /\ \A k \in 1..Len(dfcalls) :
       /\ dfcalls[k].frame = k - 1
       /\ dfcalls[k].offset = (k - 1) * FRAME_CHARS
       /\ dfcalls[k].len = Min(FRAME_CHARS, hex_len - (k - 1) * FRAME_CHARS)
       /\ dfcalls[k].len > 0
       /\ k < Len(dfcalls) => dfcalls[k].len = FRAME_CHARS
  /\ pc = "close" =>
       /\ (Len(dfcalls) - 1) * FRAME_CHARS
            + (IF dfcalls = <<>> THEN FRAME_CHARS ELSE dfcalls[Len(dfcalls)].len)
          = hex_len
       /\ dfcalls # <<>> =>
            dfcalls[Len(dfcalls)].len =
              IF hex_len % FRAME_CHARS = 0 THEN FRAME_CHARS
              ELSE hex_len % FRAME_CHARS
  /\ pc \in {"df_ext", "df_desc", "df_glyph", "df_lines", "df_ret"} =>
       /\ dfcalls # <<>>
       /\ df_frame = dfcalls[Len(dfcalls)].frame
       /\ df_data = dfcalls[Len(dfcalls)].offset
       /\ df_len = dfcalls[Len(dfcalls)].len
  /\ pc = "df_lines" =>
       /\ i = dfcalls[Len(dfcalls)].len
       /\ dc.c = hex[(Len(dfcalls) - 1) * FRAME_CHARS + i]

\* C2's case: the loop has ended after two full chunks and a shorter last one.
C2_Witness ==
  /\ pc = "close"
  /\ Len(dfcalls) = 3
  /\ dfcalls[2].len = FRAME_CHARS
  /\ dfcalls[3].len \in 1..(FRAME_CHARS - 1)

\* The lowercase hex digits, as the claim names them.
CanonHex == <<"0","1","2","3","4","5","6","7","8","9","a","b","c","d","e","f">>

\* The byte count of the readable inputs among argv[3 .. n - 1].
RECURSIVE ReadableBytes(_)
ReadableBytes(n) ==
  IF n <= 3 THEN 0
  ELSE ReadableBytes(n - 1)
         + (IF Readable(Arg(n - 1)) THEN FileLen(Arg(n - 1)) ELSE 0)

\* Byte p (from 0) of the concatenation of the readable inputs from argv[k] on.
RECURSIVE StreamByte(_, _)
StreamByte(k, p) ==
  IF ~Readable(Arg(k)) THEN StreamByte(k + 1, p)
  ELSE IF p >= FileLen(Arg(k)) THEN StreamByte(k + 1, p - FileLen(Arg(k)))
  ELSE FileByte(Arg(k), p)

\* C3: when serialization finishes the hex buffer is the concatenation, in
\* argument order and byte order, of the two lowercase zero-padded hex digits
\* of every byte of every readable input, so hex_len is twice their byte
\* count; hex_len is even after every append, and each append stores the
\* digits of the byte just read.
C3_HexBuffer ==
  /\ hex_len % 2 = 0
  /\ (pc = "read" /\ in_pos > 0) =>
       LET b == FileByte(Arg(f), in_pos - 1)
       IN  /\ hex[hex_len - 1] = CanonHex[(b \div 16) + 1]
           /\ hex[hex_len] = CanonHex[(b % 16) + 1]
  /\ pc = "gif_open" =>
       /\ hex_len = 2 * ReadableBytes(argc)
       /\ \A p \in 0..(ReadableBytes(argc) - 1) :
            LET b == StreamByte(3, p)
            IN  /\ hex[2 * p + 1] = CanonHex[(b \div 16) + 1]
                /\ hex[2 * p + 2] = CanonHex[(b % 16) + 1]

\* C3's case: bytes 00 0a ff of the first input and 41 of the third, the
\* unreadable second contributing nothing.
C3_Witness ==
  /\ pc = "gif_open"
  /\ argv = <<"gptgif", "cf", "out.gif", "edge", "nofile", "A">>
  /\ hex = <<"0", "0", "0", "a", "f", "f", "4", "1", NUL>>
  /\ hex_len = 8

\* The command line without argv[k].
Without(args, k) == SubSeq(args, 1, k) \o SubSeq(args, k + 2, Len(args))

Unreadable == {k \in 3..(argc - 1) : ~Readable(Arg(k))}

\* C4 as claimed: a run that skipped an unreadable path and completed, its
\* container opened, exits with the status of the run on the command line
\* without that path.
C4_SameStatusWithoutPath ==
  (pc = "exit" /\ gif = "gif") =>
    \A k \in Unreadable : status = ExitStatusOf(Without(argv, k))

\* C4, amended: a failed fopen leaves hex, hex_len and hex_capacity as they
\* were and the loop goes on with the next path; a run that then completes
\* exits 0, wherever the unreadable paths stand and even when every path is
\* unreadable; that is the status of the run without the path provided
\* another input path remains (argc >= 5).  ExitStatusOf is the status of
\* every completed run of the model, so it is that of the shorter run too.
C4_SkipUnreadable ==
  /\ [][(pc = "for_f" /\ f < argc /\ ~Readable(Arg(f))) =>
          /\ hex' = hex
          /\ hex_len' = hex_len
          /\ hex_capacity' = hex_capacity
          /\ f' = f + 1
          /\ pc' = "for_f"
          /\ status' = status
          /\ err' = err]_vars
  /\ []((pc = "exit" /\ err # "Memory allocation failed") =>
          /\ status = ExitStatusOf(argv)
          /\ Unreadable # {} =>
               /\ err = "" => status = 0
               /\ argc >= 5 =>
                    \A k \in Unreadable :
                      status = ExitStatusOf(Without(argv, k)))

\* C4's case: a run whose first input path is unreadable has serialized the
\* second and completed.
C4_Witness ==
  /\ pc = "exit"
  /\ status = 0
  /\ argv = <<"gptgif", "cf", "out.gif", "nofile", "edge">>
  /\ hex_len = 6

\* C5: the usage path is taken exactly when argc < 4 or argv[1] is not "cf";
\* it prints the usage message and exits 1 with no input opened, nothing
\* serialized and no encoder call made.
C5_Usage ==
  /\ pc # "start" =>
       ((err = "usage") <=> (IF argc < 4 THEN TRUE ELSE Arg(1) # "cf"))
  /\ err = "usage" =>
       /\ pc = "exit"
       /\ status = 1
       /\ f = 0
       /\ in_pos = 0
       /\ hex = <<>>
       /\ hex_len = 0
       /\ gif = "unset"
       /\ calls = <<>>
       /\ dfcalls = <<>>

\* C5's case: "cf" with an output path and no input has taken the usage path.
C5_Witness ==
  /\ err = "usage"
  /\ argc = 3
  /\ Arg(1) = "cf"
  /\ status = 1

\* C6 as claimed: once EGifOpenFileName has failed, no further encoder call
\* is made on the handle.
C6_OpenFailureFatal ==
  gif = "NULL" => Len(calls) = 1

\* C7: every pixel draw_char stores for a set glyph bit at (dx, dy) in frame
\* f holds 32 + ((f + dy + dx) mod 223), a value of 32..254, and every set
\* bit of the glyph gets its pixel.
C7_Brightness ==
  /\ \A w \in dc.writes :
       /\ w.val = 32 + ((dc.frame + w.dy + w.dx) % 223)
       /\ w.val \in 32..254
       /\ w.val # 0
  /\ dc.matched =>
       \A dy \in 0..7, dx \in 0..7 :
         BitSet(Strchr(dc.c), dy, dx) <=>
           (\E w \in dc.writes : w.dx = dx /\ w.dy = dy)

\* C7's case: the glyph "0" drawn first in frame 215, where f + dy + dx
\* passes 222: the ramp's top value and its restart at 32 are both stored.
C7_Witness ==
  /\ pc = "df_glyph"
  /\ i = 1
  /\ dc.frame = 215
  /\ dc.c = "0"
  /\ \E w \in dc.writes : w.dx + w.dy = 7 /\ w.val = 254
  /\ \E w \in dc.writes : w.dx + w.dy = 8 /\ w.val = 32

\* The glyph cell, counted row-major, that raster index idx lies in.
CellOf(idx) ==
  ((idx \div WIDTH) \div GLYPH_HEIGHT) * COLS + ((idx % WIDTH) \div GLYPH_WIDTH)

\* C8: the glyph of chunk position k < min(len, FRAME_CHARS) is placed at
\* ((k % COLS) * GLYPH_WIDTH, (k / COLS) * GLYPH_HEIGHT), and every raster
\* index draw_char computes or writes for it lies in [0, WIDTH * HEIGHT) and
\* in cell k, on the glyph's own rows and columns; the loop draws every such
\* position and no other.
C8_GlyphInCell ==
  /\ pc = "df_lines" => i = Min(df_len, FRAME_CHARS)
  /\ (pc = "df_glyph" /\ i > 0) =>
    LET k == i - 1
    IN  /\ k < df_len
        /\ k < FRAME_CHARS
        /\ dc.x = (k % COLS) * GLYPH_WIDTH
        /\ dc.y = (k \div COLS) * GLYPH_HEIGHT
        /\ dc.matched => Cardinality(dc.idxs) = GLYPH_WIDTH * GLYPH_HEIGHT
        /\ \A idx \in dc.idxs \cup {w.idx : w \in dc.writes} :
             /\ idx >= 0
             /\ idx < WIDTH * HEIGHT
             /\ CellOf(idx) = k
             /\ (idx % WIDTH) - dc.x \in 0..(GLYPH_WIDTH - 1)
             /\ (idx \div WIDTH) - dc.y \in 0..(GLYPH_HEIGHT - 1)

\* C8's case: the last cell of a full frame was drawn, down to the raster's
\* last pixel.
C8_Witness ==
  /\ pc = "df_glyph"
  /\ i = FRAME_CHARS
  /\ dc.matched
  /\ (WIDTH * HEIGHT - 1) \in dc.idxs

\* The k-th encoder call of a completed run of n frames.
ExpectedCall(k, n) ==
  IF k = 1 THEN Call("EGifOpenFileName", 0, 0)
  ELSE IF k = 2 THEN Call("EGifPutScreenDesc", 640, 480)
  ELSE IF k = 3 + n * 482 THEN Call("EGifCloseFile", 0, 0)
  ELSE LET j == (k - 3) % 482
       IN  IF j = 0 THEN Call("EGifPutExtension", 30, 4)
           ELSE IF j = 1 THEN Call("EGifPutImageDesc", 640, 480)
           ELSE Call("EGifPutLine", (j - 2) * 640, 640)

\* C9: in a run whose container was opened, the encoder calls are, in order:
\* the open, one screen descriptor, then per frame the graphics-control
\* extension (delay 30), the image descriptor and the 480 lines top to
\* bottom, and one close after the last frame; no encoder call is made
\* before every input has been serialized.
C9_EncoderOrder ==
  /\ calls # <<>> =>
       /\ f = argc
       /\ pc \notin {"start", "for_f", "read"}
       /\ calls[1].op = "EGifOpenFileName"
  /\ (gif = "gif" /\ pc = "exit") =>
       LET n == CeilDiv(hex_len, FRAME_CHARS)
       IN  /\ Len(calls) = 3 + n * 482
           /\ \A k \in 1..Len(calls) : calls[k] = ExpectedCall(k, n)

\* C9's case: a run that serialized two readable inputs into one frame has
\* completed.
C9_Witness ==
  /\ gif = "gif"
  /\ pc = "exit"
  /\ status = 0
  /\ argv = <<"gptgif", "cf", "out.gif", "edge", "nofile", "A">>
  /\ Len(dfcalls) = 1
  /\ Len(calls) = 3 + 482

RECURSIVE IsCapacity(_)
IsCapacity(c) ==
  \/ c = 1024
  \/ c > 1024 /\ c % 2 = 0 /\ IsCapacity(c \div 2)

\* C10: every append's 3-byte store at hex_len ends inside the buffer
\* (hex_len + 3 <= hex_capacity before hex_len advances); hex_capacity is
\* 1024 * 2^k, at most doubles in a step and never shrinks; hex_len only
\* grows, by 2.
C10_BufferBounds ==
  /\ []((pc # "start" /\ err # "usage") =>
          /\ IsCapacity(hex_capacity)
          /\ Len(hex) <= hex_capacity
          /\ hex_len + 1 <= hex_capacity)
  /\ [][pc # "start" =>
          /\ hex_capacity' \in {hex_capacity, 2 * hex_capacity}
          /\ hex_len' \in {hex_len, hex_len + 2}
          /\ hex_len' = hex_len + 2 =>
               /\ hex_len + 3 <= hex_capacity'
               /\ Len(hex') = hex_len + 3]_vars

\* C10's case: the append that first met the growth test has doubled the
\* capacity and stored its digits.
C10_Witness ==
  /\ pc = "read"
  /\ hex_len = 1024
  /\ hex_capacity = 2048
  /\ Len(hex) = 1025

====
